---- MODULE Spec2Model ----
(***************************************************************************)
(* Model of the SyllabAI maintenance scripts:                              *)
(*   database_cleanup.py         (asyncpg, interactive confirmation)       *)
(*   database_cleanup_simple.py  (SQLAlchemy session)                      *)
(*   database_cleanup_render.py  (SQLAlchemy session, internal URL)        *)
(*   database_status.py          (tries two URLs)                          *)
(*   query_via_api.py            (HTTP probes of a local backend)          *)
(*   query_course_db.py          (course / events lookup)                  *)
(* One behaviour is one script, run MaxRuns times in succession against    *)
(* the same database.  Every network operation (connect, statement,        *)
(* commit, HTTP request) is a step whose outcome the environment chooses.  *)
(***************************************************************************)
EXTENDS Integers, Sequences, FiniteSets, TLC

\* ---------------------------------------------------------------- bounds
MaxUsers == 2
MaxEvents == 2
MaxRuns == 2

\* ------------------------------------------------------ program constants
CLEANUP == "database_cleanup.py"
SIMPLE == "database_cleanup_simple.py"
RENDER == "database_cleanup_render.py"
STATUS == "database_status.py"
API == "query_via_api.py"
QUERY == "query_course_db.py"

Scripts == {CLEANUP, SIMPLE, RENDER, STATUS, API, QUERY}
CleanupScripts == {CLEANUP, SIMPLE, RENDER}
\* the scripts whose cleanup_database / verify_cleanup use a SQLAlchemy session
SessionScripts == {SIMPLE, RENDER}

Roles == {"admin", "professor", "student", "user"}

\* tables = ['users', 'courses', 'course_events', 'student_course_links']
tables == <<"users", "courses", "course_events", "student_course_links">>

\* URLS = {"Production": ..., "Internal": ...}, iterated in insertion order
URLS == <<"Production", "Internal">>

target_course_id == "508ed4f4-bb12-42da-b525-24a11d7877b0"
OtherCourseId == "another-course-id"
FixedTitle == "Production & Operations Management"
FixedEmail == "jdabliz1@gmail.com"
Titles == {FixedTitle, "Another title"}
Emails == {FixedEmail, "someone@else"}
Times == {1, 2}

\* ------------------------------------------------------- database content
EmptyDb ==
  [users |-> {}, courses |-> {}, course_events |-> {},
   student_course_links |-> {}]

UniqueIds(rows) == \A a, b \in rows : a.id = b.id => a = b

UsersTables ==
  {u \in SUBSET [id : 1..MaxUsers, role : Roles] : UniqueIds(u)}

\* the target course with any title and creator, and possibly another course
\* of the fixed creator
CoursesTables ==
  {t \cup o :
     t \in {{}} \cup {{r} : r \in [id : {target_course_id}, title : Titles,
                                   created_by : Emails]},
     o \in {{}} \cup {{r} : r \in [id : {OtherCourseId}, title : Titles,
                                   created_by : {FixedEmail}]}}

\* course_events.course_id references courses.id
EventsTables(courses) ==
  {e \in SUBSET [id : 1..MaxEvents, course_id : {c.id : c \in courses},
                 start_time : Times] : UniqueIds(e)}

LinksTables(users, courses) ==
  {{}, [user_id : {u.id : u \in users}, course_id : {c.id : c \in courses}]}

SampleCourses ==
  {[id |-> target_course_id, title |-> FixedTitle, created_by |-> FixedEmail]}

SampleEvents ==
  {[id |-> 1, course_id |-> target_course_id, start_time |-> 1]}

\* The database contents a run may start from.  The lookup script reads
\* courses and course_events only, the cleanup and status scripts read users
\* and the row counts, the HTTP probe reads no table.
InitDbs(s) ==
  IF s = API THEN {EmptyDb}
  ELSE IF s = QUERY THEN
    UNION {{[users |-> {}, courses |-> c, course_events |-> e,
             student_course_links |-> {}] : e \in EventsTables(c)} :
           c \in CoursesTables}
  ELSE
    UNION {{[users |-> u, courses |-> ce[1], course_events |-> ce[2],
             student_course_links |-> l] : l \in LinksTables(u, ce[1])} :
           u \in UsersTables,
           ce \in {<<{}, {}>>, <<SampleCourses, SampleEvents>>}}

\* ------------------------------------------------------------- SQL effect
\* variant: users is missing from the TRUNCATE list
MutTruncateOmitsUsers(d) ==
  [d EXCEPT !.courses = {}, !.course_events = {},
            !.student_course_links = {}]

\* variant: users is not truncated, only its rows of role 'user' are deleted
MutTruncateDeletesUserRole(d) ==
  [d EXCEPT !.courses = {}, !.course_events = {},
            !.student_course_links = {},
            !.users = {r \in d.users : r.role # "user"}]

\* TRUNCATE courses, course_events, student_course_links, users CASCADE;
Truncate(d) ==
  [d EXCEPT !.courses = {}, !.course_events = {},
            !.student_course_links = {}, !.users = {}]

\* UPDATE users SET role = 'user' WHERE role = 'student';
UpdateStudents(d) ==
  [d EXCEPT !.users =
     {IF r.role = "student" THEN [r EXCEPT !.role = "user"] ELSE r :
        r \in d.users}]

\* the row count the UPDATE reports
UpdatedCount(d) == Cardinality({r \in d.users : r.role = "student"})

\* DELETE FROM users WHERE role = 'professor';
DeleteProfessors(d) ==
  [d EXCEPT !.users = {r \in d.users : r.role # "professor"}]

\* the row count the DELETE reports
DeletedCount(d) == Cardinality({r \in d.users : r.role = "professor"})

\* SELECT COUNT(*) FROM {table};
CountRows(d, table) == Cardinality(d[table])

\* SELECT role, COUNT(*) FROM users GROUP BY role;  (a set of rows)
RoleHistogram(d) ==
  {[role |-> ro, count |-> Cardinality({r \in d.users : r.role = ro})] :
     ro \in {r.role : r \in d.users}}

\* every order in which the rows of a result set may be returned
Orderings(S) ==
  {q \in [1..Cardinality(S) -> S] : \A x \in S : \E i \in DOMAIN q : q[i] = x}

\* ------------------------------------------------------------ the state
VARIABLES
  script,   \* the script of this behaviour
  run,      \* number of the current invocation, 1..MaxRuns
  pc,       \* position in the script
  db,       \* committed content of the database
  tx,       \* content seen inside the open transaction, <<>> when none
  bound,    \* the local names the running function has bound
  todo,     \* what the running loop still iterates over
  inner,    \* what the loop nested in it still iterates over
  course_id, \* the local course_id of query_course_and_events, "" if unbound
  ret,      \* return value of the last function that returned
  out,      \* what this invocation printed, in order
  log,      \* the network operations of this invocation, in order
  db0,      \* database content when this invocation started
  commits   \* database content right after each commit, over all runs

vars ==
  <<script, run, pc, db, tx, bound, todo, inner, course_id, ret, out, log,
    db0, commits>>

NoTx == <<>>

Msg(k) == [k |-> k, s |-> "", n |-> 0]
MsgN(k, s, n) == [k |-> k, s |-> s, n |-> n]
Op(o, t) == [op |-> o, target |-> t, n |-> 0]

Printed(k) == \E i \in DOMAIN out : out[i].k = k
Logged(o, t) == \E i \in DOMAIN log : log[i] = Op(o, t)

Init ==
  /\ script \in Scripts
  /\ run = 1
  /\ pc = "main"
  /\ db \in InitDbs(script)
  /\ tx = NoTx
  /\ bound = {}
  /\ todo = <<>>
  /\ inner = <<>>
  /\ course_id = ""
  /\ ret = "none"
  /\ out = <<>>
  /\ log = <<>>
  /\ db0 = db
  /\ commits = <<>>

\* ---------------------------------------------------------- shared steps
Say(msgs) == out' = out \o msgs
Net(ops) == log' = log \o ops

\* The outcomes of executing a statement on connection or session t.  A
\* SQLAlchemy session connects on its first execute, so that execute may also
\* fail to connect; an asyncpg connection is connected before any execute.
ExecOutcomes(t) ==
  IF Logged("connect_ok", t) THEN {"ok", "fail"} ELSE {"ok", "fail", "connfail"}

\* the network operations of one execute on t with outcome o
ExecOps(t, o) ==
  IF Logged("connect_ok", t)
  THEN <<Op(IF o = "ok" THEN "execute_ok" ELSE "execute_fail", t)>>
  ELSE IF o = "connfail" THEN <<Op("connect_fail", t)>>
  ELSE <<Op("connect_ok", t),
         Op(IF o = "ok" THEN "execute_ok" ELSE "execute_fail", t)>>

\* input() of database_cleanup.py, and str.lower() on it
Inputs == {"yes", "YES", "Yes", "no", "y", ""}
Lower(s) == IF s \in {"YES", "Yes"} THEN "yes" ELSE s

\* ------------------------------------------------------------- __main__
\* variant: the answer is read but not compared
MutMainConfirmIgnoresAnswer ==
  /\ pc = "main"
  /\ script = CLEANUP
  /\ \E confirm \in Inputs :
       /\ Net(<<Op("input", confirm)>>)
       /\ Say(<<Msg("banner")>>)
       /\ pc' = "cd_connect"
  /\ UNCHANGED <<script, run, course_id, db, tx, bound, todo, inner, ret, db0,
                 commits>>

\* database_cleanup.py: banner, confirmation prompt, sys.exit(0) unless 'yes'
MainConfirm ==
  /\ pc = "main"
  /\ script = CLEANUP
  /\ \E confirm \in Inputs :
       /\ Net(<<Op("input", confirm)>>)
       /\ IF Lower(confirm) # "yes"
          THEN /\ Say(<<Msg("banner"), Msg("Cleanup cancelled")>>)
               /\ pc' = "done"
          ELSE /\ Say(<<Msg("banner")>>)
               /\ pc' = "cd_connect"
  /\ UNCHANGED <<script, run, course_id, db, tx, bound, todo, inner, ret, db0,
                 commits>>

\* database_cleanup_simple.py, database_cleanup_render.py: confirm = 'yes'
MainAuto ==
  /\ pc = "main"
  /\ script \in SessionScripts
  /\ Say(<<Msg("banner"), Msg("Auto-confirming database cleanup")>>)
  /\ pc' = "cd_connect"
  /\ UNCHANGED <<script, run, course_id, db, tx, bound, todo, inner, ret, log, db0, commits>>

\* ----------------------------------------------------- cleanup_database
\* asyncpg.connect(DATABASE_URL), or create_engine + sessionmaker + Session().
\* When it raises, the except clause prints and the finally clause (and, in
\* the session scripts, the except clause too) uses a name that was never
\* bound: the UnboundLocalError leaves the function.
CdConnect ==
  /\ pc = "cd_connect"
  /\ \E ok \in BOOLEAN :
       IF ok
       THEN /\ bound' = {IF script = CLEANUP THEN "conn" ELSE "session"}
            /\ Net(IF script = CLEANUP
                   THEN <<Op("connect_ok", "mutation"), Op("open", "mutation")>>
                   ELSE <<Op("open", "mutation")>>)
            /\ Say(<<Msg("Starting database cleanup"), Msg("Connecting")>>)
            /\ pc' = "cd_truncate"
            /\ ret' = ret
       ELSE /\ bound' = {}
            /\ Net(IF script = CLEANUP
                   THEN <<Op("connect_fail", "mutation"),
                          Op("close_unbound", "mutation")>>
                   ELSE <<Op("engine_fail", "mutation"),
                          Op("rollback_unbound", "mutation"),
                          Op("close_unbound", "mutation")>>)
            /\ Say(<<Msg("Starting database cleanup"), Msg("Connecting"),
                     Msg("Database cleanup failed")>>)
            /\ pc' = "crashed"
            /\ ret' = "raised"
  /\ UNCHANGED <<script, run, course_id, db, tx, todo, inner, db0, commits>>

\* variant: no transaction scope, every statement is committed as it runs
MutRollbackKeepsWork(committed, working) ==
  IF working = NoTx THEN committed ELSE working

\* the committed content once the transaction scope has rolled back
Rollback(committed, working) == committed

\* A statement (or the commit) raised inside the transaction scope: the scope
\* rolls back, the except clause prints (and calls session.rollback() in the
\* session scripts) and returns False, the finally clause closes.
CdExcept(before, ops) ==
  /\ db' = Rollback(db, tx)
  /\ tx' = NoTx
  /\ Net(ops \o <<Op("rollback", "mutation")>>
          \o (IF script \in SessionScripts
              THEN <<Op("rollback", "mutation")>> ELSE <<>>)
          \o <<Op("close", "mutation")>>)
  /\ Say(before \o <<Msg("Database cleanup failed"),
                      Msg("Database connection closed")>>)
  /\ ret' = "False"
  /\ bound' = {}
  /\ pc' = "main_after_cleanup"
  /\ UNCHANGED <<script, run, course_id, todo, inner, db0, commits>>

\* variant: the UPDATE step is left out, DELETE follows TRUNCATE
MutCdTruncateSkipsUpdate ==
  /\ pc = "cd_truncate"
  /\ \E o \in ExecOutcomes("mutation") :
       IF o = "ok"
       THEN /\ tx' = Truncate(db)
            /\ Net(<<Op("begin", "mutation"), Op("TRUNCATE", "mutation")>>
                   \o ExecOps("mutation", o))
            /\ Say(<<Msg("Truncating all tables"), Msg("All data cleared")>>)
            /\ pc' = "cd_delete"
            /\ UNCHANGED <<script, run, course_id, db, bound, todo, inner, ret,
                           db0, commits>>
       ELSE CdExcept(<<Msg("Truncating all tables")>>,
                     <<Op("begin", "mutation"), Op("TRUNCATE", "mutation")>>
                       \o ExecOps("mutation", o))

\* entering the transaction scope and TRUNCATE ... CASCADE
CdTruncate ==
  /\ pc = "cd_truncate"
  /\ \E o \in ExecOutcomes("mutation") :
       IF o = "ok"
       THEN /\ tx' = Truncate(db)
            /\ Net(<<Op("begin", "mutation"), Op("TRUNCATE", "mutation")>>
                   \o ExecOps("mutation", o))
            /\ Say(<<Msg("Truncating all tables"), Msg("All data cleared")>>)
            /\ pc' = "cd_update"
            /\ UNCHANGED <<script, run, course_id, db, bound, todo, inner, ret, db0, commits>>
       ELSE CdExcept(<<Msg("Truncating all tables")>>,
                     <<Op("begin", "mutation"), Op("TRUNCATE", "mutation")>>
                       \o ExecOps("mutation", o))

\* UPDATE users SET role = 'user' WHERE role = 'student'
CdUpdate ==
  /\ pc = "cd_update"
  /\ \E o \in ExecOutcomes("mutation") :
       IF o = "ok"
       THEN /\ tx' = UpdateStudents(tx)
            /\ Net(<<Op("UPDATE", "mutation")>> \o ExecOps("mutation", o))
            /\ Say(<<Msg("Converting STUDENT roles"),
                     MsgN("Updated student records", "", UpdatedCount(tx))>>)
            /\ pc' = "cd_delete"
            /\ UNCHANGED <<script, run, course_id, db, bound, todo, inner, ret, db0, commits>>
       ELSE CdExcept(<<Msg("Converting STUDENT roles")>>,
                     <<Op("UPDATE", "mutation")>> \o ExecOps("mutation", o))

\* DELETE FROM users WHERE role = 'professor'
CdDelete ==
  /\ pc = "cd_delete"
  /\ \E o \in ExecOutcomes("mutation") :
       IF o = "ok"
       THEN /\ tx' = DeleteProfessors(tx)
            /\ Net(<<Op("DELETE", "mutation")>> \o ExecOps("mutation", o))
            /\ Say(<<Msg("Removing professor accounts"),
                     MsgN("Removed professor records", "", DeletedCount(tx)),
                     Msg("Database cleanup completed successfully")>>)
            /\ pc' = "cd_commit"
            /\ UNCHANGED <<script, run, course_id, db, bound, todo, inner, ret, db0, commits>>
       ELSE CdExcept(<<Msg("Removing professor accounts")>>,
                     <<Op("DELETE", "mutation")>> \o ExecOps("mutation", o))

\* leaving the transaction scope commits; then finally closes, return True
CdCommit ==
  /\ pc = "cd_commit"
  /\ \E ok \in BOOLEAN :
       IF ok
       THEN /\ db' = tx
            /\ tx' = NoTx
            /\ commits' = Append(commits, tx)
            /\ Net(<<Op("commit", "mutation"), Op("close", "mutation")>>)
            /\ Say(<<Msg("Database connection closed")>>)
            /\ ret' = "True"
            /\ bound' = {}
            /\ pc' = "main_after_cleanup"
            /\ UNCHANGED <<script, run, course_id, todo, inner, db0>>
       ELSE CdExcept(<<>>, <<Op("commit_fail", "mutation")>>)

\* variant: every script verifies whatever cleanup_database returned
MutMainAfterCleanupAlwaysVerifies ==
  /\ pc = "main_after_cleanup"
  /\ pc' = "vc_connect"
  /\ UNCHANGED <<script, run, course_id, db, tx, bound, todo, inner, ret, out,
                 log, db0, commits>>

\* __main__ after cleanup_database(): database_cleanup.py drops the result
\* and always verifies; the session scripts verify only on True
MainAfterCleanup ==
  /\ pc = "main_after_cleanup"
  /\ IF script = CLEANUP \/ ret = "True"
     THEN /\ pc' = "vc_connect"
          /\ out' = out
     ELSE /\ pc' = "done"
          /\ Say(<<Msg("Cleanup failed - check the error messages above")>>)
  /\ UNCHANGED <<script, run, course_id, db, tx, bound, todo, inner, ret, log, db0, commits>>

\* ------------------------------------------------------- verify_cleanup
\* the lines printed for the rows of the role histogram
RoleLines(rows) ==
  IF rows = <<>> THEN <<Msg("No users in database")>>
  ELSE <<Msg("User roles:")>>
       \o [i \in DOMAIN rows |-> MsgN("users", rows[i].role, rows[i].count)]

\* asyncpg.connect, or create_engine + Session(), inside the try
VcConnect ==
  /\ pc = "vc_connect"
  /\ \E ok \in BOOLEAN :
       IF ok
       THEN /\ bound' = {IF script = CLEANUP THEN "conn" ELSE "session"}
            /\ Net(IF script = CLEANUP
                   THEN <<Op("connect_ok", "verification"),
                          Op("open", "verification")>>
                   ELSE <<Op("open", "verification")>>)
            /\ Say(<<Msg("Verifying cleanup")>>)
            /\ todo' = tables
            /\ pc' = "vc_count"
            /\ ret' = ret
       ELSE /\ bound' = {}
            /\ Net(<<Op(IF script = CLEANUP THEN "connect_fail"
                        ELSE "engine_fail", "verification")>>)
            /\ Say(<<Msg("Verifying cleanup"), Msg("Verification failed")>>)
            /\ todo' = <<>>
            /\ pc' = "main_after_verify"
            /\ ret' = "None"
  /\ UNCHANGED <<script, run, course_id, db, tx, inner, db0, commits>>

\* variant: the except clause prints nothing
MutVcExceptSilent(ops) ==
  /\ Net(ops)
  /\ out' = out
  /\ todo' = <<>>
  /\ bound' = {}
  /\ ret' = "None"
  /\ pc' = "main_after_verify"
  /\ UNCHANGED <<script, run, course_id, db, tx, inner, db0, commits>>

\* except Exception as e: print(f"Verification failed: {e}"); the function
\* then ends, the close inside the try is skipped
VcExcept(ops) ==
  /\ Net(ops)
  /\ Say(<<Msg("Verification failed")>>)
  /\ todo' = <<>>
  /\ bound' = {}
  /\ ret' = "None"
  /\ pc' = "main_after_verify"
  /\ UNCHANGED <<script, run, course_id, db, tx, inner, db0, commits>>

\* for table in tables: SELECT COUNT(*) FROM {table};
VcCount ==
  /\ pc = "vc_count"
  /\ \E o \in ExecOutcomes("verification") :
       IF o = "ok"
       THEN /\ Net(ExecOps("verification", o))
            /\ Say(<<MsgN("records", Head(todo), CountRows(db, Head(todo)))>>)
            /\ todo' = Tail(todo)
            /\ pc' = IF Tail(todo) = <<>> THEN "vc_roles" ELSE "vc_count"
            /\ UNCHANGED <<script, run, course_id, db, tx, bound, inner, ret, db0, commits>>
       ELSE VcExcept(ExecOps("verification", o))

\* SELECT role, COUNT(*) ... GROUP BY role; then close and "complete"
VcRoles ==
  /\ pc = "vc_roles"
  /\ \E o \in ExecOutcomes("verification") :
       IF o = "ok"
       THEN /\ \E roles \in Orderings(RoleHistogram(db)) :
                 Say(RoleLines(roles) \o <<Msg("Verification complete")>>)
            /\ Net(ExecOps("verification", o)
                   \o <<Op("close", "verification")>>)
            /\ bound' = {}
            /\ ret' = "None"
            /\ pc' = "main_after_verify"
            /\ UNCHANGED <<script, run, course_id, db, tx, todo, inner, db0, commits>>
       ELSE VcExcept(ExecOps("verification", o))

\* __main__ after verify_cleanup()
MainAfterVerify ==
  /\ pc = "main_after_verify"
  /\ Say(<<Msg("Database is now ready for student-only app!")>>)
  /\ pc' = "done"
  /\ UNCHANGED <<script, run, course_id, db, tx, bound, todo, inner, ret, log, db0, commits>>

\* ------------------------------------------------ check_database_status
MainStatus ==
  /\ pc = "main"
  /\ script = STATUS
  /\ Say(<<Msg("banner"), Msg("Checking SyllabAI database status")>>)
  /\ todo' = URLS
  /\ pc' = "st_engine"
  /\ UNCHANGED <<script, run, course_id, db, tx, bound, inner, ret, log, db0, commits>>

\* except Exception as e: print(f"{name} connection failed: {e}"); continue
\* and, when the loop over URLS is exhausted, the lines after it
StExcept(before, ops) ==
  /\ Net(ops)
  /\ bound' = {}
  /\ inner' = <<>>
  /\ todo' = Tail(todo)
  /\ IF Tail(todo) = <<>>
     THEN /\ Say(before \o <<MsgN("connection failed", Head(todo), 0),
                             Msg("All database connections failed")>>)
          /\ ret' = "False"
          /\ pc' = "done"
     ELSE /\ Say(before \o <<MsgN("connection failed", Head(todo), 0)>>)
          /\ ret' = ret
          /\ pc' = "st_engine"
  /\ UNCHANGED <<script, run, course_id, db, tx, db0, commits>>

\* for name, url in URLS.items(): create_engine, sessionmaker, Session()
StEngine ==
  /\ pc = "st_engine"
  /\ \E ok \in BOOLEAN :
       IF ok
       THEN /\ Net(<<Op("open", Head(todo))>>)
            /\ Say(<<MsgN("Trying URL", Head(todo), 0)>>)
            /\ bound' = {"session"}
            /\ pc' = "st_select1"
            /\ UNCHANGED <<script, run, course_id, db, tx, todo, inner, ret, db0, commits>>
       ELSE StExcept(<<MsgN("Trying URL", Head(todo), 0)>>,
                     <<Op("engine_fail", Head(todo))>>)

\* session.execute(text("SELECT 1"))
StSelect1 ==
  /\ pc = "st_select1"
  /\ \E o \in ExecOutcomes(Head(todo)) :
       IF o = "ok"
       THEN /\ Net(ExecOps(Head(todo), o))
            /\ Say(<<MsgN("connection successful", Head(todo), 0),
                     Msg("Current data:")>>)
            /\ inner' = tables
            /\ pc' = "st_count"
            /\ UNCHANGED <<script, run, course_id, db, tx, bound, todo, ret, db0, commits>>
       ELSE StExcept(<<>>, ExecOps(Head(todo), o))

\* variant: the statement of the loop deletes the rows it was to count
MutStCountDeletes ==
  /\ pc = "st_count"
  /\ \E o \in ExecOutcomes(Head(todo)) :
       /\ Net(ExecOps(Head(todo), o))
       /\ IF o = "ok"
          THEN /\ Say(<<MsgN("records", Head(inner),
                             CountRows(db, Head(inner)))>>)
               /\ db' = [db EXCEPT ![Head(inner)] = {}]
          ELSE /\ Say(<<MsgN("table Error", Head(inner), 0)>>)
               /\ db' = db
  /\ inner' = Tail(inner)
  /\ pc' = IF Tail(inner) = <<>> THEN "st_roles" ELSE "st_count"
  /\ UNCHANGED <<script, run, course_id, tx, bound, todo, ret, db0, commits>>

\* for table in tables: try: SELECT COUNT(*) ... except: print the error
StCount ==
  /\ pc = "st_count"
  /\ \E o \in ExecOutcomes(Head(todo)) :
       /\ Net(ExecOps(Head(todo), o))
       /\ IF o = "ok"
          THEN Say(<<MsgN("records", Head(inner), CountRows(db, Head(inner)))>>)
          ELSE Say(<<MsgN("table Error", Head(inner), 0)>>)
  /\ inner' = Tail(inner)
  /\ pc' = IF Tail(inner) = <<>> THEN "st_roles" ELSE "st_count"
  /\ UNCHANGED <<script, run, course_id, db, tx, bound, todo, ret, db0, commits>>

\* try: role histogram except: print the error; session.close(); return True
StRoles ==
  /\ pc = "st_roles"
  /\ \E o \in ExecOutcomes(Head(todo)) :
       /\ Net(ExecOps(Head(todo), o) \o <<Op("close", Head(todo))>>)
       /\ IF o = "ok"
          THEN \E roles \in Orderings(RoleHistogram(db)) :
                 Say(RoleLines(roles)
                     \o <<MsgN("status check complete", Head(todo), 0)>>)
          ELSE Say(<<Msg("User roles: Error"),
                     MsgN("status check complete", Head(todo), 0)>>)
  /\ bound' = {}
  /\ ret' = "True"
  /\ pc' = "done"
  /\ UNCHANGED <<script, run, course_id, db, tx, todo, inner, db0, commits>>

\* ------------------------------------------------- query_courses_via_api
\* what requests.get may do: raise, or return a response with a status code
Statuses == {200, 401, 404}
Responses ==
  {[raised |-> TRUE, status |-> 0]}
    \cup {[raised |-> FALSE, status |-> c] : c \in Statuses}

Get(path, r) ==
  [op |-> IF r.raised THEN "get_raised" ELSE "get", target |-> path,
   n |-> r.status]

CoursePath == "/courses/{target_course_id}"

\* variant: the status line is printed without the status code
MutProbeLinesNoCode(path, r) ==
  IF r.raised THEN <<MsgN("Error accessing endpoint", path, 0)>>
  ELSE <<MsgN("endpoint status", path, 0), Msg("Response")>>

\* the try/except around the /courses, /courses/{id} and /events requests
ProbeLines(path, r) ==
  IF r.raised THEN <<MsgN("Error accessing endpoint", path, 0)>>
  ELSE <<MsgN("endpoint status", path, r.status), Msg("Response")>>

\* requests.get(f"{BACKEND_URL}/health"): an exception goes to the outer
\* except, a status other than 200 prints and returns
ApiHealth ==
  /\ pc = "main"
  /\ script = API
  /\ \E r \in Responses :
       /\ Net(<<Get("/health", r)>>)
       /\ IF r.raised
          THEN /\ Say(<<Msg("Error querying via API"), Msg("traceback")>>)
               /\ pc' = "done"
          ELSE IF r.status # 200
          THEN /\ Say(<<Msg("Backend is not running or not healthy")>>)
               /\ pc' = "done"
          ELSE /\ Say(<<Msg("Backend is running and healthy")>>)
               /\ pc' = "api_docs"
  /\ UNCHANGED <<script, run, course_id, db, tx, bound, todo, inner, ret, db0, commits>>

\* try: requests.get(.../docs); print(...) except: pass
ApiDocs ==
  /\ pc = "api_docs"
  /\ \E r \in Responses :
       /\ Net(<<Get("/docs", r)>>)
       /\ Say(IF r.raised THEN <<>> ELSE <<Msg("API docs available at")>>)
  /\ pc' = "api_courses"
  /\ UNCHANGED <<script, run, course_id, db, tx, bound, todo, inner, ret, db0, commits>>

ApiCourses ==
  /\ pc = "api_courses"
  /\ \E r \in Responses :
       /\ Net(<<Get("/courses", r)>>)
       /\ Say(<<Msg("Attempting to access courses endpoint")>>
              \o ProbeLines("/courses", r))
  /\ pc' = "api_course"
  /\ UNCHANGED <<script, run, course_id, db, tx, bound, todo, inner, ret, db0, commits>>

ApiCourse ==
  /\ pc = "api_course"
  /\ \E r \in Responses :
       /\ Net(<<Get(CoursePath, r)>>)
       /\ Say(ProbeLines(CoursePath, r))
  /\ pc' = "api_events"
  /\ UNCHANGED <<script, run, course_id, db, tx, bound, todo, inner, ret, db0, commits>>

\* the /events request, then the SUMMARY and RECOMMENDATION text
ApiEvents ==
  /\ pc = "api_events"
  /\ \E r \in Responses :
       /\ Net(<<Get("/events", r)>>)
       /\ Say(ProbeLines("/events", r)
              \o <<Msg("SUMMARY"), Msg("RECOMMENDATION")>>)
  /\ pc' = "done"
  /\ UNCHANGED <<script, run, course_id, db, tx, bound, todo, inner, ret, db0, commits>>

\* ----------------------------------------------- query_course_and_events
\* WHERE title = :title AND created_by = :email
CourseQuery(d, title, email) ==
  {c \in d.courses : c.title = title /\ c.created_by = email}

\* WHERE id = :course_id
CourseIdQuery(d, id) == {c \in d.courses : c.id = id}

\* FROM course_events WHERE course_id = :course_id ORDER BY start_time:
\* every order of the matching rows that is sorted by start_time
EventsQuery(d, id) ==
  LET rows == {e \in d.course_events : e.course_id = id}
  IN  {q \in Orderings(rows) :
         \A i, j \in DOMAIN q : i < j => q[i].start_time <= q[j].start_time}

\* FROM courses WHERE created_by = :email ORDER BY created_at DESC
\* (created_at is not part of the model: any order)
AllCoursesQuery(d, email) ==
  Orderings({c \in d.courses : c.created_by = email})

\* SELECT COUNT(*) FROM course_events WHERE course_id = :course_id
EventsCount(d, id) ==
  Cardinality({e \in d.course_events : e.course_id = id})

\* the lines printed for a course row
CourseLines(k, c) ==
  <<Msg(k), MsgN("ID", c.id, 0), MsgN("Title", c.title, 0),
    MsgN("Created by", c.created_by, 0)>>

\* print(f"Number of events found: {len(events)}") and the event details
EventLines(events) ==
  <<MsgN("Number of events found", "", Len(events))>>
    \o (IF events = <<>> THEN <<Msg("No events found for this course.")>>
        ELSE <<Msg("Event details:")>>
             \o [i \in DOMAIN events |-> MsgN("Event ID", "", events[i].id)])

\* create_engine and sessionmaker run before the try: an exception there
\* leaves the function.  Then SessionLocal() opens the session.
QEngine ==
  /\ pc = "main"
  /\ script = QUERY
  /\ \E ok \in BOOLEAN :
       IF ok
       THEN /\ Net(<<Op("open", "lookup")>>)
            /\ Say(<<Msg("Successfully connected to the database!")>>)
            /\ bound' = {"session"}
            /\ pc' = "q_version"
            /\ ret' = ret
       ELSE /\ Net(<<Op("engine_raise", "lookup")>>)
            /\ out' = out
            /\ bound' = {}
            /\ pc' = "crashed"
            /\ ret' = "raised"
  /\ UNCHANGED <<script, run, course_id, db, tx, todo, inner, db0, commits>>

\* variant: the except clause does not catch the exception
MutQExceptPropagates(before, ops) ==
  /\ Net(ops \o <<Op("close", "lookup")>>)
  /\ Say(before)
  /\ bound' = {}
  /\ todo' = <<>>
  /\ ret' = "raised"
  /\ pc' = "crashed"
  /\ UNCHANGED <<script, run, course_id, db, tx, inner, db0, commits>>

\* An exception inside the with block: the session's context manager closes
\* it, then except Exception prints the error and the traceback.
QExcept(before, ops) ==
  /\ Net(ops \o <<Op("close", "lookup")>>)
  /\ Say(before \o <<Msg("Error"), Msg("traceback")>>)
  /\ bound' = {}
  /\ todo' = <<>>
  /\ ret' = "None"
  /\ pc' = "done"
  /\ UNCHANGED <<script, run, course_id, db, tx, inner, db0, commits>>

\* SELECT version();
QVersion ==
  /\ pc = "q_version"
  /\ \E o \in ExecOutcomes("lookup") :
       IF o = "ok"
       THEN /\ Net(ExecOps("lookup", o))
            /\ Say(<<Msg("PostgreSQL version")>>)
            /\ pc' = "q_by_title"
            /\ UNCHANGED <<script, run, course_id, db, tx, bound, todo, inner,
                           ret, db0, commits>>
       ELSE QExcept(<<>>, ExecOps("lookup", o))

\* Query 1: the course by title and user email; fetchone() takes any one of
\* the matching rows.  events_query is assigned in the found branch only.
QByTitle ==
  /\ pc = "q_by_title"
  /\ \E o \in ExecOutcomes("lookup") :
       IF o = "ok"
       THEN /\ Net(ExecOps("lookup", o))
            /\ IF CourseQuery(db, FixedTitle, FixedEmail) = {}
               THEN /\ Say(<<Msg("SEARCHING FOR COURSE BY TITLE AND USER"),
                             Msg("Course not found with the specified title and user email.")>>)
                    /\ pc' = "q_by_id"
                    /\ UNCHANGED <<course_id, bound>>
               ELSE \E course_result \in CourseQuery(db, FixedTitle, FixedEmail) :
                      /\ course_id' = course_result.id
                      /\ Say(<<Msg("SEARCHING FOR COURSE BY TITLE AND USER")>>
                             \o CourseLines("Course found:", course_result)
                             \o <<MsgN("EVENTS FOR COURSE ID", course_result.id, 0)>>)
                      /\ bound' = bound \cup {"course_id", "events_query"}
                      /\ pc' = "q_title_events"
            /\ UNCHANGED <<script, run, db, tx, todo, inner, ret, db0, commits>>
       ELSE QExcept(<<Msg("SEARCHING FOR COURSE BY TITLE AND USER")>>,
                    ExecOps("lookup", o))

\* session.execute(events_query, {"course_id": course_id}) of Query 1
QTitleEvents ==
  /\ pc = "q_title_events"
  /\ \E o \in ExecOutcomes("lookup") :
       IF o = "ok"
       THEN /\ Net(ExecOps("lookup", o))
            /\ \E events \in EventsQuery(db, course_id) : Say(EventLines(events))
            /\ pc' = "q_by_id"
            /\ UNCHANGED <<script, run, course_id, db, tx, bound, todo, inner,
                           ret, db0, commits>>
       ELSE QExcept(<<>>, ExecOps("lookup", o))

\* Query 2: the course by the provided course ID
QById ==
  /\ pc = "q_by_id"
  /\ \E o \in ExecOutcomes("lookup") :
       IF o = "ok"
       THEN /\ Net(ExecOps("lookup", o))
            /\ IF CourseIdQuery(db, target_course_id) = {}
               THEN /\ Say(<<Msg("SEARCHING BY PROVIDED COURSE ID"),
                             Msg("Course not found by the provided course ID either.")>>)
                    /\ pc' = "q_all_courses"
                    /\ UNCHANGED <<course_id, bound>>
               ELSE \E course_by_id \in CourseIdQuery(db, target_course_id) :
                      /\ course_id' = course_by_id.id
                      /\ Say(<<Msg("SEARCHING BY PROVIDED COURSE ID")>>
                             \o CourseLines("Course found by ID:", course_by_id)
                             \o <<MsgN("EVENTS FOR COURSE FOUND BY ID",
                                       course_by_id.id, 0)>>)
                      /\ bound' = bound \cup {"course_id"}
                      /\ pc' = "q_id_events"
            /\ UNCHANGED <<script, run, db, tx, todo, inner, ret, db0, commits>>
       ELSE QExcept(<<Msg("SEARCHING BY PROVIDED COURSE ID")>>,
                    ExecOps("lookup", o))

\* session.execute(events_query, ...) of Query 2: events_query is the local
\* of Query 1's found branch; unbound, its use raises UnboundLocalError
QIdEvents ==
  /\ pc = "q_id_events"
  /\ IF "events_query" \notin bound
     THEN QExcept(<<>>, <<Op("unbound_events_query", "lookup")>>)
     ELSE \E o \in ExecOutcomes("lookup") :
            IF o = "ok"
            THEN /\ Net(ExecOps("lookup", o))
                 /\ \E events \in EventsQuery(db, course_id) :
                      Say(EventLines(events))
                 /\ pc' = "q_all_courses"
                 /\ UNCHANGED <<script, run, course_id, db, tx, bound, todo,
                                inner, ret, db0, commits>>
            ELSE QExcept(<<>>, ExecOps("lookup", o))

\* leaving the with block normally closes the session; the function returns
QReturn(ops, lines) ==
  /\ Net(ops \o <<Op("close", "lookup")>>)
  /\ Say(lines)
  /\ bound' = {}
  /\ todo' = <<>>
  /\ ret' = "None"
  /\ pc' = "done"
  /\ UNCHANGED <<script, run, course_id, db, tx, inner, db0, commits>>

\* Query 3: all courses of the user
QAllCourses ==
  /\ pc = "q_all_courses"
  /\ \E o \in ExecOutcomes("lookup") :
       IF o = "ok"
       THEN \E all_courses \in AllCoursesQuery(db, FixedEmail) :
              IF all_courses = <<>>
              THEN QReturn(ExecOps("lookup", o),
                           <<Msg("ALL COURSES FOR USER"),
                             MsgN("Total courses found for user", "", 0)>>)
              ELSE /\ Net(ExecOps("lookup", o))
                   /\ Say(<<Msg("ALL COURSES FOR USER"),
                            MsgN("Total courses found for user", "",
                                 Len(all_courses)),
                            Msg("All courses:")>>)
                   /\ todo' = all_courses
                   /\ pc' = "q_course_count"
                   /\ UNCHANGED <<script, run, course_id, db, tx, bound, inner,
                                  ret, db0, commits>>
       ELSE QExcept(<<Msg("ALL COURSES FOR USER")>>, ExecOps("lookup", o))

\* for course in all_courses: print it, count its events
QCourseCount ==
  /\ pc = "q_course_count"
  /\ \E o \in ExecOutcomes("lookup") :
       IF o = "ok"
       THEN IF Tail(todo) = <<>>
            THEN QReturn(ExecOps("lookup", o),
                         CourseLines("Course", Head(todo))
                           \o <<MsgN("Events", Head(todo).id,
                                     EventsCount(db, Head(todo).id))>>)
            ELSE /\ Net(ExecOps("lookup", o))
                 /\ Say(CourseLines("Course", Head(todo))
                        \o <<MsgN("Events", Head(todo).id,
                                  EventsCount(db, Head(todo).id))>>)
                 /\ todo' = Tail(todo)
                 /\ UNCHANGED <<script, run, pc, course_id, db, tx, bound,
                                inner, ret, db0, commits>>
       ELSE QExcept(CourseLines("Course", Head(todo)), ExecOps("lookup", o))

\* --------------------------------------------------------- run in succession
Rerun ==
  /\ pc \in {"done", "crashed"}
  /\ run < MaxRuns
  /\ run' = run + 1
  /\ pc' = "main"
  /\ tx' = NoTx
  /\ bound' = {}
  /\ todo' = <<>>
  /\ inner' = <<>>
  /\ course_id' = ""
  /\ ret' = "none"
  /\ out' = <<>>
  /\ log' = <<>>
  /\ db0' = db
  /\ UNCHANGED <<script, db, commits>>

\* ------------------------------------------------------------ properties
Terminal == pc \in {"done", "crashed"}

TableNames == {tables[i] : i \in DOMAIN tables}

NumOps(ops, t) ==
  Cardinality({i \in DOMAIN log : log[i].op \in ops /\ log[i].target = t})

Targets == {log[i].target : i \in DOMAIN log}

\* C1: every commit of cleanup_database produces a database with zero rows in
\* courses, course_events, student_course_links and users, hence with no user
\* whose role is 'professor' or 'student'; the database holds that content
\* for the rest of the invocation.
C1_CommitLeavesTablesEmpty ==
  /\ \A i \in DOMAIN commits :
       /\ \A t \in TableNames : commits[i][t] = {}
       /\ ~ \E r \in commits[i].users : r.role \in {"professor", "student"}
  /\ Logged("commit", "mutation") =>
       /\ db = commits[Len(commits)]
       /\ \A t \in TableNames : db[t] = {}

C1_Witness ==
  /\ Logged("commit", "mutation")
  /\ \E r \in db0.users : r.role = "professor"
  /\ \E r \in db0.users : r.role = "student"
  /\ db0.courses # {}
  /\ db = EmptyDb

\* a statement of the mutation batch raised inside the transaction (in the
\* session scripts the first statement also raises when the session cannot
\* connect)
StatementRaised ==
  \/ Logged("execute_fail", "mutation")
  \/ script \in SessionScripts /\ Logged("connect_fail", "mutation")

\* C2: when TRUNCATE, UPDATE or DELETE raises inside the transaction of
\* cleanup_database, the transaction is rolled back, the committed content is
\* what it was before the run, an error message is printed and nothing is
\* committed.
C2_FailedBatchIsRolledBack ==
  (script \in CleanupScripts /\ StatementRaised) =>
    /\ db = db0
    /\ tx = NoTx
    /\ Logged("rollback", "mutation")
    /\ Printed("Database cleanup failed")
    /\ ~ Logged("commit", "mutation")

C2_Witness ==
  /\ script \in CleanupScripts
  /\ Logged("execute_fail", "mutation")
  /\ NumOps({"execute_ok"}, "mutation") = 2
  /\ db0.users # {}
  /\ db0.courses # {}
  /\ db = db0

\* C3: every connection or session a script opens is closed exactly once by
\* the end of the invocation, on the success and on the failure path, and
\* close is never invoked on a name no connection was bound to.
C3_ReleasedExactlyOnce ==
  /\ \A t \in Targets :
       /\ NumOps({"close"}, t) <= NumOps({"open"}, t)
       /\ NumOps({"close_unbound"}, t) = 0
  /\ Terminal =>
       \A t \in Targets : NumOps({"close"}, t) = NumOps({"open"}, t)

\* the paths query_courses_via_api probes, in order
ProbePaths == <<"/health", "/docs", "/courses", CoursePath, "/events">>

Probed(path) ==
  \E i \in DOMAIN log : log[i].target = path /\ log[i].op \in {"get", "get_raised"}

LaterProbed(path) ==
  \A a, b \in DOMAIN ProbePaths :
    (ProbePaths[a] = path /\ a < b) => Probed(ProbePaths[b])

NoLaterProbe(path) ==
  \A a, b \in DOMAIN ProbePaths :
    (ProbePaths[a] = path /\ a < b) => ~ Probed(ProbePaths[b])

StatusReported(path, code) ==
  \E j \in DOMAIN out : out[j] = MsgN("endpoint status", path, code)

Non200(path) ==
  {log[i].n : i \in {j \in DOMAIN log : /\ log[j].op = "get"
                                        /\ log[j].target = path
                                        /\ log[j].n # 200}}

\* C4 as stated: for each of the five probed paths a response whose status is
\* not 200 is reported with its status code and all later paths are probed.
C4_EveryNon200ReportedAndContinues ==
  (script = API /\ pc = "done") =>
    \A a \in DOMAIN ProbePaths : \A code \in Non200(ProbePaths[a]) :
      /\ StatusReported(ProbePaths[a], code)
      /\ LaterProbed(ProbePaths[a])

\* C4 as amended: for /courses, /courses/{id} and /events a response whose
\* status is not 200 is reported with its status code and all later paths are
\* probed; after a non-200 /docs response the later paths are probed but its
\* status code is not printed; a non-200 /health response prints the
\* not-healthy message without the status code and no later path is probed.
C4_Non200OfCourseProbesReported ==
  (script = API /\ pc = "done") =>
    /\ \A path \in {"/courses", CoursePath, "/events"} :
         \A code \in Non200(path) :
           StatusReported(path, code) /\ LaterProbed(path)
    /\ \A code \in Non200("/docs") :
         ~ StatusReported("/docs", code) /\ LaterProbed("/docs")
    /\ \A code \in Non200("/health") :
         /\ ~ StatusReported("/health", code)
         /\ Printed("Backend is not running or not healthy")
         /\ NoLaterProbe("/health")

C4_Witness ==
  /\ script = API
  /\ pc = "done"
  /\ Non200("/docs") # {}
  /\ Non200("/courses") # {}
  /\ Non200(CoursePath) # {}
  /\ Non200("/events") # {}

\* what the lookup script printed after the heading of the events of the
\* course found by ID
IdReport ==
  {out[j] : j \in {k \in DOMAIN out :
     \E h \in DOMAIN out :
        h < k /\ out[h].k = "EVENTS FOR COURSE FOUND BY ID"}}

NoOperationFailed ==
  \A i \in DOMAIN log :
    log[i].op \notin {"execute_fail", "connect_fail", "engine_raise"}

\* C5: when the literal course identifier matches a course row with N
\* course_events rows, the lookup script reports the event count N and
\* prints exactly the events of that course, also when the title and email
\* lookup found no course (taken over the runs in which no database
\* operation failed).
C5_IdLookupReportsEvents ==
  (/\ script = QUERY
   /\ pc = "done"
   /\ NoOperationFailed
   /\ CourseIdQuery(db, target_course_id) # {}) =>
    /\ MsgN("Number of events found", "",
            EventsCount(db, target_course_id)) \in IdReport
    /\ {m.n : m \in {x \in IdReport : x.k = "Event ID"}}
         = {e.id : e \in {x \in db.course_events :
                            x.course_id = target_course_id}}

TitleLookupFoundNothing ==
  /\ script = QUERY
  /\ NumOps({"execute_ok"}, "lookup") >= 2
  /\ CourseQuery(db, FixedTitle, FixedEmail) = {}

\* C6: when no course matches the fixed title and email, the lookup script
\* prints the not-found message of that lookup and query_course_and_events
\* does not raise to its caller.
C6_NotFoundIsReportedNotRaised ==
  TitleLookupFoundNothing =>
    /\ Printed("Course not found with the specified title and user email.")
    /\ pc # "crashed"
    /\ ret # "raised"

C6_Witness ==
  /\ TitleLookupFoundNothing
  /\ pc = "done"
  /\ ret = "None"
  /\ Logged("unbound_events_query", "lookup")

\* C7: a second committed run of cleanup_database leaves the database as the
\* first committed run left it.
C7_SecondRunChangesNothing ==
  \A i, j \in DOMAIN commits : commits[i] = commits[j]

C7_Witness ==
  /\ Len(commits) >= 2
  /\ run >= 2
  /\ Logged("commit", "mutation")
  /\ db = commits[1]

VerifyFailOps == {"connect_fail", "engine_fail", "execute_fail"}

VerifyFailed == NumOps(VerifyFailOps, "verification") > 0

\* C8: a failure of verify_cleanup (on connect or on any query) leaves the
\* committed result of the mutation unchanged, is reported with a printed
\* message, is not retried and does not leave verify_cleanup.
C8_VerifyFailureIsReportedOnly ==
  VerifyFailed =>
    /\ db = IF Logged("commit", "mutation") THEN commits[Len(commits)] ELSE db0
    /\ Printed("Verification failed")
    /\ pc \in {"main_after_verify", "done"}
    /\ ret = "None"
    /\ NumOps(VerifyFailOps, "verification") = 1
    /\ log[Len(log)].target = "verification"
    /\ log[Len(log)].op \in VerifyFailOps
    /\ NumOps({"open"}, "verification") <= 1

C8_Witness ==
  /\ VerifyFailed
  /\ Logged("commit", "mutation")
  /\ Logged("execute_ok", "verification")
  /\ db0.users # {}
  /\ pc = "done"

\* the exceptions an except clause catches, and the messages that report one
CaughtOps ==
  {"connect_fail", "engine_fail", "execute_fail", "commit_fail", "get_raised",
   "unbound_events_query"}

ErrorMessages ==
  {"Database cleanup failed", "Verification failed", "connection failed",
   "table Error", "User roles: Error", "Error accessing endpoint",
   "Error querying via API", "Error"}

\* C9: no error is silently swallowed: every exception an except clause
\* catches produces a printed message, the request exception of the /docs
\* probe included.
C9_EveryCaughtExceptionPrinted ==
  Cardinality({i \in DOMAIN log : log[i].op \in CaughtOps})
    <= Cardinality({j \in DOMAIN out : out[j].k \in ErrorMessages})

ConnectOrQuery ==
  {"connect_ok", "connect_fail", "execute_ok", "execute_fail", "open"}

\* C10 as stated: once a connection attempt has failed, the script makes no
\* further connection attempt and issues no further query in the invocation.
C10_ConnectFailureEndsAllDatabaseWork ==
  \A i, j \in DOMAIN log :
    (i < j /\ log[i].op = "connect_fail") => log[j].op \notin ConnectOrQuery

\* C10 as amended: a failed connection attempt is never retried, and in the
\* cleanup scripts and the lookup script it ends all database work of the
\* invocation; check_database_status goes on to the URLs it has not tried
\* yet, each at most once, and issues no query on the URL that failed.
C10_ConnectFailureNotRetried ==
  /\ \A i, j \in DOMAIN log :
       (i < j /\ log[i].op = "connect_fail") =>
         \/ log[j].op \notin ConnectOrQuery
         \/ script = STATUS /\ log[j].target # log[i].target
  /\ \A t \in Targets :
       NumOps({"connect_ok", "connect_fail"}, t) <= 1

C10_Witness ==
  /\ script = STATUS
  /\ pc = "done"
  /\ Logged("connect_fail", "Production")
  /\ Logged("execute_ok", "Internal")

\* the answers that equal 'yes' when case is ignored
YesIgnoringCase == {"yes", "YES", "Yes"}

\* cleanup_database has been entered
CleanupEntered == pc = "cd_connect" \/ Printed("Starting database cleanup")

\* C11: database_cleanup.py opens no connection and executes no statement
\* unless the answer read from standard input equals 'yes' ignoring case; on
\* any other answer it prints the cancellation message and exits with the
\* database unchanged.  The two session scripts enter cleanup_database
\* without reading any input.
C11_OnlyYesProceeds ==
  /\ (script = CLEANUP /\ pc = "main") => log = <<>>
  /\ (script = CLEANUP /\ pc # "main") =>
       /\ log # <<>>
       /\ log[1].op = "input"
       /\ IF log[1].target \in YesIgnoringCase
          THEN CleanupEntered /\ ~ Printed("Cleanup cancelled")
          ELSE /\ Len(log) = 1
               /\ Printed("Cleanup cancelled")
               /\ pc = "done"
               /\ db = db0
               /\ tx = NoTx
  /\ (script \in SessionScripts /\ pc # "main") =>
       /\ \A i \in DOMAIN log : log[i].op # "input"
       /\ CleanupEntered
       /\ ~ Printed("Cleanup cancelled")

C11_Witness ==
  /\ script = CLEANUP
  /\ pc = "done"
  /\ log = <<Op("input", "no")>>
  /\ Printed("Cleanup cancelled")
  /\ db0.users # {}
  /\ db = db0

\* the steps of verify_cleanup, check_database_status and
\* query_course_and_events
ReadOnlyStep ==
  \/ pc \in {"vc_connect", "vc_count", "vc_roles"}
  \/ script \in {STATUS, QUERY} /\ pc \notin {"done", "crashed"}

\* C12: verify_cleanup, check_database_status and query_course_and_events are
\* read-only: none of their steps, on any path, error paths included, changes
\* the content of users, courses, course_events or student_course_links.
C12_ReadOnlyFlowsChangeNothing ==
  [][ReadOnlyStep => (db' = db /\ tx' = tx)]_vars

C12_Witness ==
  /\ script = STATUS
  /\ pc = "done"
  /\ Printed("table Error")
  /\ Printed("records")
  /\ db0.users # {}
  /\ db0.courses # {}
  /\ db = db0

\* the statements of the mutation batch, in the order of the source
BatchOrder == <<"TRUNCATE", "UPDATE", "DELETE">>

IsBatchStatement(e) == e.op \in {BatchOrder[i] : i \in DOMAIN BatchOrder}

\* the statements cleanup_database has executed in this invocation, in order
BatchExecuted == SelectSeq(log, IsBatchStatement)

\* C13: cleanup_database executes TRUNCATE (of the four tables, CASCADE),
\* then UPDATE of the students, then DELETE of the professors, in that order
\* and inside one transaction: a later statement is executed only after the
\* earlier one has completed, and none is executed after one has failed.
C13_BatchRunsInOrder ==
  script \in CleanupScripts =>
    /\ Len(BatchExecuted) <= Len(BatchOrder)
    /\ \A i \in DOMAIN BatchExecuted : BatchExecuted[i].op = BatchOrder[i]
    /\ NumOps({"begin"}, "mutation") <= 1
    /\ \A j \in DOMAIN log :
         IsBatchStatement(log[j]) =>
           /\ \E i \in 1..(j - 1) : log[i] = Op("begin", "mutation")
           /\ \A i \in 1..(j - 1) :
                log[i].op \notin {"commit", "commit_fail", "rollback",
                                  "execute_fail", "connect_fail"}
           /\ log[j].op # "TRUNCATE" => log[j - 1] = Op("execute_ok", "mutation")
    /\ Logged("commit", "mutation") => Len(BatchExecuted) = Len(BatchOrder)
    /\ tx # NoTx =>
         tx = IF Len(BatchExecuted) = 1 THEN Truncate(db0)
              ELSE IF Len(BatchExecuted) = 2 THEN UpdateStudents(Truncate(db0))
              ELSE DeleteProfessors(UpdateStudents(Truncate(db0)))

C13_Witness ==
  /\ script \in CleanupScripts
  /\ Len(BatchExecuted) = 3
  /\ Logged("commit", "mutation")
  /\ db0.users # {}
  /\ pc = "done"

\* C14: in each of the three cleanup scripts verify_cleanup is started and
\* the final 'Database is now ready for student-only app!' message is
\* printed only in runs where cleanup_database committed; after a failed,
\* rolled back mutation neither happens.
C14_VerifyOnlyAfterCommit ==
  (/\ script \in CleanupScripts
   /\ \/ Printed("Verifying cleanup")
      \/ Printed("Database is now ready for student-only app!")
      \/ pc \in {"vc_connect", "vc_count", "vc_roles", "main_after_verify"})
    => Logged("commit", "mutation")

\* C15: cleanup_database never raises to its caller: it returns True exactly
\* when the transaction committed and False on every failure, a failure to
\* establish the connection included.
C15_CleanupReturnsNeverRaises ==
  script \in CleanupScripts =>
    /\ pc # "crashed"
    /\ ret # "raised"
    /\ pc = "main_after_cleanup" =>
         /\ ret \in {"True", "False"}
         /\ ret = "True" <=> Logged("commit", "mutation")

Next ==
  \/ MainConfirm
  \/ MainAuto
  \/ CdConnect
  \/ CdTruncate
  \/ CdUpdate
  \/ CdDelete
  \/ CdCommit
  \/ MainAfterCleanup
  \/ VcConnect
  \/ VcCount
  \/ VcRoles
  \/ MainAfterVerify
  \/ MainStatus
  \/ StEngine
  \/ StSelect1
  \/ StCount
  \/ StRoles
  \/ ApiHealth
  \/ ApiDocs
  \/ ApiCourses
  \/ ApiCourse
  \/ ApiEvents
  \/ QEngine
  \/ QVersion
  \/ QByTitle
  \/ QTitleEvents
  \/ QById
  \/ QIdEvents
  \/ QAllCourses
  \/ QCourseCount
  \/ Rerun

Spec == Init /\ [][Next]_vars

====
